---- MODULE Spec2Model ----
(***************************************************************************)
(* A model of kdmapi-rs (src/src/lib.rs): the lazily initialised KDMAPI    *)
(* registry (lazy_static KDMAPI_LIB / KDMAPI), the library locator         *)
(* load_kdmapi_lib, the symbol binder load_kdmapi_binds, the stream guard  *)
(* is_stream_open, KDMAPIBinds::open_stream and KDMAPIStream's Drop, as    *)
(* used by several threads of one process.                                 *)
(***************************************************************************)
EXTENDS Integers, Sequences, FiniteSets, TLC

\* ---------------------------------------------------------------- bounds
\* Threads of the host process that use the registry.
NumThreads == 2
\* KDMAPIStream values tracked at once: a slot is reused once its handle
\* has been dropped and every slot has been used.
MaxHandles == 2
\* Entry points the loaded driver library may lack.
MaxMissing == 1

\* Successful open_stream calls the driver observer counts.
MaxOpens == 3
\* Characters in a soundfont path.
MaxPathLen == 2

Threads == 1..NumThreads
HandleIds == 1..MaxHandles

\* ------------------------------------------------------- program constants
\* The platforms load_kdmapi_lib is compiled for (cfg(target_os = ...)).
Platforms == {"windows", "linux", "macos"}

\* The names load_kdmapi_lib hands to Library::new, in the order of the code.
CandidatePaths(plat) ==
  CASE plat = "windows" -> <<"OmniMIDI\\OmniMIDI", "OmniMIDI">>
    [] plat = "linux"   -> <<"libOmniMIDI.so">>
    [] plat = "macos"   -> <<"libOmniMIDI.dylib">>

\* The entry points load_kdmapi_binds resolves, in the order of the struct
\* literal's fields (Rust evaluates them in source order).
SymbolNames ==
  << "IsKDMAPIAvailable", "InitializeKDMAPIStream", "TerminateKDMAPIStream",
     "ResetKDMAPIStream", "SendDirectData", "SendDirectDataNoBuf",
     "LoadCustomSoundFontsList" >>

Range(s) == { s[i] : i \in 1..Len(s) }

Symbols == Range(SymbolNames)

\* What the driver's InitializeKDMAPIStream (an i32) may return.
InitReturns == {-1, 0, 1}

\* ------------------------------------------------------------------ values
NoVal == [kind |-> "none", name |-> ""]
OkLib(n) == [kind |-> "lib", name |-> n]
ErrLoad(n) == [kind |-> "err", name |-> n]
OkBinds == [kind |-> "binds", name |-> ""]
Panicked == [kind |-> "panic", name |-> ""]

\* An open_stream call: its result, what it did (InitializeKDMAPIStream and
\* TerminateKDMAPIStream calls, the driver's return, handles constructed) and
\* what held when it read the guard: the caller owned a live handle (own), no
\* handle was live and no other call was past the guard (idle), a handle had
\* been dropped (afterDrop), an earlier call had failed at init (afterFail).
NoCall ==
  [result |-> "none", inits |-> 0, ret |-> 0, made |-> 0, terms |-> 0,
   own |-> FALSE, idle |-> FALSE, afterDrop |-> FALSE, afterFail |-> FALSE]

NoHandle == [state |-> "none", owner |-> 0, terms |-> 0]

\* A call of one of the forwarding methods (is_kdmapi_available, reset,
\* send_direct_data, send_direct_data_no_buf, load_custom_soundfonts_list):
\* the method (api), the driver entry point it called (fn) and how often
\* (calls), the method's u32 argument (data) and the one handed to the driver
\* (arg), the driver's return (drv) and the method's (ret), the path given
\* and the memory the driver finds at the pointer it is handed (path, buf),
\* and whether the driver's stream was initialised at the call (init).
NoOp ==
  [api |-> "none", fn |-> "none", calls |-> 0, data |-> 0, arg |-> 0,
   drv |-> 0, ret |-> 0, path |-> << >>, buf |-> << >>, init |-> FALSE]

VARIABLES
  platform,       \* target_os the crate was built for
  loads,          \* environment: which candidate names Library::new can load
  missing,        \* environment: entry points absent from the driver library
  libVal,         \* KDMAPI_LIB: NoVal until computed, then Ok(lib) or Err
  kdmapiOnce,     \* KDMAPI's Once: "uninit", "running", "done", "poisoned"
  kdmapiVal,      \* KDMAPI: NoVal until computed, then Ok(binds) or Err(&err)
  attempts,       \* Library::new calls made so far, in order
  resolved,       \* lib.get calls that returned a symbol, in order
  loadRuns,       \* times load_kdmapi_lib has run
  bindRuns,       \* times load_kdmapi_binds has run
  seen,           \* what each thread's latest dereference of KDMAPI gave it
  is_stream_open, \* KDMAPIBinds::is_stream_open
  pc,             \* each thread's position
  call,           \* each thread's open_stream call, until its caller has the result
  everFailed,     \* some open_stream call has returned the init-failed error
  cur,            \* the handle a thread is dropping (0: none)
  handles,        \* the KDMAPIStream values, by slot
  driverCalled,   \* some driver entry point has been called
  op,             \* the forwarding-method call whose result is being returned
  avail,          \* the driver's latest IsKDMAPIAvailable answer, if any
  drvInit,        \* driver side: the stream is initialised
  nInitOk,        \* driver side: nonzero InitializeKDMAPIStream returns
  nMade,          \* KDMAPIStream values constructed so far
  nTerm           \* driver side: TerminateKDMAPIStream calls

vars ==
  << platform, loads, missing, libVal, kdmapiOnce, kdmapiVal, attempts,
     resolved, loadRuns, bindRuns, seen, is_stream_open, pc, call,
     everFailed, cur, handles, driverCalled, op, avail, drvInit, nInitOk,
     nMade, nTerm >>

envVars == << platform, loads, missing >>
regVars ==
  << libVal, kdmapiOnce, kdmapiVal, attempts, resolved, loadRuns, bindRuns >>
streamVars == << is_stream_open, call, everFailed, cur, handles, driverCalled >>
\* What an observer of the driver and of the forwarding methods records.
apiVars == << op, avail >>
drvVars == << drvInit, nInitOk, nMade, nTerm >>

\* ----------------------------------------------------------------- helpers
Held == { h \in HandleIds : handles[h].state = "live" }
Live == { h \in HandleIds : handles[h].state \in {"live", "dropping"} }
Dead == { h \in HandleIds : handles[h].state = "dead" }
Created == { h \in HandleIds : handles[h].state # "none" }
OwnedBy(t) == { h \in HandleIds : handles[h].state = "live" /\ handles[h].owner = t }

\* ----------------------------------------------------------------- Init
Init ==
  /\ platform \in Platforms
  /\ loads \in [Range(CandidatePaths(platform)) -> BOOLEAN]
  /\ missing \in { m \in SUBSET Symbols : Cardinality(m) <= MaxMissing }
  /\ libVal = NoVal
  /\ kdmapiOnce = "uninit"
  /\ kdmapiVal = NoVal
  /\ attempts = << >>
  /\ resolved = << >>
  /\ loadRuns = 0
  /\ bindRuns = 0
  /\ seen = [t \in Threads |-> NoVal]
  /\ is_stream_open = FALSE
  /\ pc = [t \in Threads |-> "start"]
  /\ call = [t \in Threads |-> NoCall]
  /\ cur = [t \in Threads |-> 0]
  /\ handles = [h \in HandleIds |-> NoHandle]
  /\ everFailed = FALSE
  /\ driverCalled = FALSE
  /\ op = NoOp
  /\ avail = "unknown"
  /\ drvInit = FALSE
  /\ nInitOk = 0
  /\ nMade = 0
  /\ nTerm = 0

\* ------------------------------------------------------- library locator
\* Library::new(name): the OS loader's answer for one candidate name.
LibraryNew(name) == IF loads[name] THEN OkLib(name) ELSE ErrLoad(name)

\* load_kdmapi_lib without the fallback: the first candidate's result is
\* returned whatever it is.
load_kdmapi_lib_first_only(plat) ==
  CASE plat = "windows" ->
         [tried |-> <<"OmniMIDI\\OmniMIDI">>, val |-> LibraryNew("OmniMIDI\\OmniMIDI")]
    [] plat = "linux" ->
         [tried |-> <<"libOmniMIDI.so">>, val |-> LibraryNew("libOmniMIDI.so")]
    [] plat = "macos" ->
         [tried |-> <<"libOmniMIDI.dylib">>, val |-> LibraryNew("libOmniMIDI.dylib")]

\* load_kdmapi_lib: the Library::new calls it makes, in order, and its result.
load_kdmapi_lib(plat) ==
  CASE plat = "windows" ->
         LET lib == LibraryNew("OmniMIDI\\OmniMIDI")
         IN  IF lib.kind = "lib"
               THEN [tried |-> <<"OmniMIDI\\OmniMIDI">>, val |-> lib]
               ELSE [tried |-> <<"OmniMIDI\\OmniMIDI", "OmniMIDI">>,
                     val |-> LibraryNew("OmniMIDI")]
    [] plat = "linux" ->
         [tried |-> <<"libOmniMIDI.so">>, val |-> LibraryNew("libOmniMIDI.so")]
    [] plat = "macos" ->
         [tried |-> <<"libOmniMIDI.dylib">>, val |-> LibraryNew("libOmniMIDI.dylib")]

\* --------------------------------------------------------- symbol binder
\* The lib.get(..).unwrap() calls that return before the first one that
\* panics: the longest prefix of SymbolNames with no missing entry point.
RECURSIVE ResolvedUpTo(_)
ResolvedUpTo(n) ==
  IF n = 0 THEN << >>
  ELSE LET before == ResolvedUpTo(n - 1)
       IN  IF Len(before) = n - 1 /\ SymbolNames[n] \notin missing
             THEN Append(before, SymbolNames[n])
             ELSE before

ResolvedSymbols == ResolvedUpTo(Len(SymbolNames))

\* ------------------------------------------------------ binding registry
\* First dereference of KDMAPI: the thread enters the Once and becomes the
\* initialiser; a thread that finds the Once running blocks (no step).
DerefFirst(t) ==
  /\ pc[t] = "start"
  /\ kdmapiOnce = "uninit"
  /\ kdmapiOnce' = "running"
  /\ pc' = [pc EXCEPT ![t] = "load_lib"]
  /\ UNCHANGED << envVars, libVal, kdmapiVal, attempts, resolved, loadRuns,
                  bindRuns, seen, streamVars >>
  /\ UNCHANGED << apiVars, drvVars >>

\* The initialiser dereferences KDMAPI_LIB, whose own initialiser runs
\* load_kdmapi_lib.
LazyLoadLib(t) ==
  /\ pc[t] = "load_lib"
  /\ libVal = NoVal
  /\ LET r == load_kdmapi_lib(platform)
     IN  /\ libVal' = r.val
         /\ attempts' = attempts \o r.tried
  /\ loadRuns' = loadRuns + 1
  /\ pc' = [pc EXCEPT ![t] = "bind"]
  /\ UNCHANGED << envVars, kdmapiOnce, kdmapiVal, resolved, bindRuns, seen,
                  streamVars >>
  /\ UNCHANGED << apiVars, drvVars >>

\* load_kdmapi_binds that binds whether or not the library loaded.
LoadKdmapiBindsIgnoringLoadError(t) ==
  /\ pc[t] = "bind"
  /\ bindRuns' = bindRuns + 1
  /\ resolved' = ResolvedSymbols
  /\ IF Len(ResolvedSymbols) = Len(SymbolNames)
       THEN /\ kdmapiVal' = OkBinds
            /\ kdmapiOnce' = "done"
            /\ seen' = [seen EXCEPT ![t] = OkBinds]
            /\ pc' = [pc EXCEPT ![t] = "ready"]
       ELSE /\ kdmapiVal' = kdmapiVal
            /\ kdmapiOnce' = "poisoned"
            /\ seen' = [seen EXCEPT ![t] = Panicked]
            /\ pc' = [pc EXCEPT ![t] = "panicked"]
  /\ UNCHANGED << envVars, libVal, attempts, loadRuns, streamVars >>
  /\ UNCHANGED << apiVars, drvVars >>

\* load_kdmapi_binds that publishes a table holding whatever entry points
\* it found.
LoadKdmapiBindsPartial(t) ==
  /\ pc[t] = "bind"
  /\ bindRuns' = bindRuns + 1
  /\ IF libVal.kind = "lib"
       THEN /\ resolved' = ResolvedSymbols
            /\ kdmapiVal' = OkBinds
            /\ kdmapiOnce' = "done"
            /\ seen' = [seen EXCEPT ![t] = OkBinds]
            /\ pc' = [pc EXCEPT ![t] = "ready"]
       ELSE /\ resolved' = resolved
            /\ kdmapiVal' = libVal
            /\ kdmapiOnce' = "done"
            /\ seen' = [seen EXCEPT ![t] = libVal]
            /\ pc' = [pc EXCEPT ![t] = "start"]
  /\ UNCHANGED << envVars, libVal, attempts, loadRuns, streamVars >>
  /\ UNCHANGED << apiVars, drvVars >>

\* load_kdmapi_binds(&KDMAPI_LIB), the rest of KDMAPI's initialiser. With a
\* loaded library every entry point is resolved and unwrapped in turn: a
\* missing one panics inside the Once, which poisons it. With a load error
\* the result is a reference to that error.
LoadKdmapiBinds(t) ==
  /\ pc[t] = "bind"
  /\ bindRuns' = bindRuns + 1
  /\ IF libVal.kind = "lib"
       THEN /\ resolved' = ResolvedSymbols
            /\ IF Len(ResolvedSymbols) = Len(SymbolNames)
                 THEN /\ kdmapiVal' = OkBinds
                      /\ kdmapiOnce' = "done"
                      /\ seen' = [seen EXCEPT ![t] = OkBinds]
                      /\ pc' = [pc EXCEPT ![t] = "ready"]
                 ELSE /\ kdmapiVal' = kdmapiVal
                      /\ kdmapiOnce' = "poisoned"
                      /\ seen' = [seen EXCEPT ![t] = Panicked]
                      /\ pc' = [pc EXCEPT ![t] = "panicked"]
       ELSE /\ resolved' = resolved
            /\ kdmapiVal' = libVal
            /\ kdmapiOnce' = "done"
            /\ seen' = [seen EXCEPT ![t] = libVal]
            /\ pc' = [pc EXCEPT ![t] = "start"]
  /\ UNCHANGED << envVars, libVal, attempts, loadRuns, streamVars >>
  /\ UNCHANGED << apiVars, drvVars >>

\* A dereference of KDMAPI once it is computed: the cached value.
DerefCached(t) ==
  /\ pc[t] \in {"start", "ready"}
  /\ kdmapiOnce = "done"
  /\ seen' = [seen EXCEPT ![t] = kdmapiVal]
  /\ pc' = [pc EXCEPT ![t] = IF kdmapiVal.kind = "binds" THEN "ready" ELSE "start"]
  /\ UNCHANGED << envVars, regVars, streamVars >>
  /\ UNCHANGED << apiVars, drvVars >>

\* A dereference of KDMAPI after its initialiser panicked: Once::call_once
\* panics on a poisoned Once.
DerefPoisoned(t) ==
  /\ pc[t] = "start"
  /\ kdmapiOnce = "poisoned"
  /\ seen' = [seen EXCEPT ![t] = Panicked]
  /\ pc' = [pc EXCEPT ![t] = "panicked"]
  /\ UNCHANGED << envVars, regVars, streamVars >>
  /\ UNCHANGED << apiVars, drvVars >>

\* ------------------------------------------------------------ KDMAPIBinds
\* KDMAPIBinds::is_kdmapi_available
IsKdmapiAvailable(t) ==
  /\ pc[t] = "ready"
  /\ driverCalled' = TRUE
  /\ UNCHANGED << envVars, regVars, seen, pc, is_stream_open, call, everFailed,
                  cur, handles >>
  /\ UNCHANGED << apiVars, drvVars >>

\* The threads that have passed open_stream's guard check and not yet
\* returned: each may still construct a handle.
Opening == { u \in Threads : pc[u] = "open_init" }

\* open_stream that gives up, without calling InitializeKDMAPIStream, when
\* the driver last reported itself unavailable.
OpenStreamCheckAvailable(t) ==
  /\ pc[t] = "ready"
  /\ Cardinality(Live) + Cardinality(Opening) < MaxHandles
  /\ nInitOk + Cardinality(Opening) < MaxOpens
  /\ call' = [call EXCEPT ![t] =
       [NoCall EXCEPT !.result = IF is_stream_open THEN "already_open"
                                ELSE IF avail = "no" THEN "init_failed"
                                ELSE "pending",
                      !.own = OwnedBy(t) # {},
                      !.idle = (Live = {} /\ Opening = {}),
                      !.afterDrop = (Dead # {}),
                      !.afterFail = everFailed]]
  /\ pc' = [pc EXCEPT ![t] = IF is_stream_open \/ avail = "no"
                               THEN "open_ret" ELSE "open_init"]
  /\ UNCHANGED << envVars, regVars, seen, is_stream_open, everFailed, cur,
                  handles, driverCalled >>
  /\ UNCHANGED << apiVars, drvVars >>

\* open_stream, first half: the relaxed load of is_stream_open and the
\* early return of the "already open" error.
OpenStreamCheck(t) ==
  /\ pc[t] = "ready"
  /\ Cardinality(Live) + Cardinality(Opening) < MaxHandles
  /\ nInitOk + Cardinality(Opening) < MaxOpens
  /\ call' = [call EXCEPT ![t] =
       [NoCall EXCEPT !.result = IF is_stream_open THEN "already_open" ELSE "pending",
                      !.own = OwnedBy(t) # {},
                      !.idle = (Live = {} /\ Opening = {}),
                      !.afterDrop = (Dead # {}),
                      !.afterFail = everFailed]]
  /\ pc' = [pc EXCEPT ![t] = IF is_stream_open THEN "open_ret" ELSE "open_init"]
  /\ UNCHANGED << envVars, regVars, seen, is_stream_open, everFailed, cur,
                  handles, driverCalled >>
  /\ UNCHANGED << apiVars, drvVars >>

\* The slot of the next handle: the first never used, else the first whose
\* handle has been dropped.
NewHandle ==
  IF Created # HandleIds
    THEN CHOOSE h \in HandleIds \ Created : \A g \in HandleIds \ Created : h <= g
    ELSE CHOOSE h \in Dead : \A g \in Dead : h <= g

\* open_stream that raises the guard before the driver call and never
\* lowers it again when the driver reports failure.
OpenStreamInitNoRollback(t) ==
  /\ pc[t] = "open_init"
  /\ \E r \in InitReturns :
       /\ driverCalled' = TRUE
       /\ nInitOk' = nInitOk + (IF r = 0 THEN 0 ELSE 1)
       /\ drvInit' = (drvInit \/ r # 0)
       /\ is_stream_open' = TRUE
       /\ IF r = 0
            THEN /\ call' = [call EXCEPT ![t].inits = @ + 1, ![t].ret = r,
                                         ![t].result = "init_failed"]
                 /\ handles' = handles
                 /\ nMade' = nMade
            ELSE /\ call' = [call EXCEPT ![t].inits = @ + 1, ![t].ret = r,
                                         ![t].made = @ + 1, ![t].result = "ok"]
                 /\ handles' = [handles EXCEPT ![NewHandle] =
                                  [state |-> "live", owner |-> t, terms |-> 0]]
                 /\ nMade' = nMade + 1
  /\ pc' = [pc EXCEPT ![t] = "open_ret"]
  /\ UNCHANGED << envVars, regVars, seen, everFailed, cur >>
  /\ UNCHANGED << apiVars, nTerm >>

\* open_stream that builds a handle whatever InitializeKDMAPIStream returns.
OpenStreamInitIgnoresReturn(t) ==
  /\ pc[t] = "open_init"
  /\ \E r \in InitReturns :
       /\ driverCalled' = TRUE
       /\ nInitOk' = nInitOk + (IF r = 0 THEN 0 ELSE 1)
       /\ drvInit' = (drvInit \/ r # 0)
       /\ call' = [call EXCEPT ![t].inits = @ + 1, ![t].ret = r,
                               ![t].made = @ + 1, ![t].result = "ok"]
       /\ handles' = [handles EXCEPT ![NewHandle] =
                        [state |-> "live", owner |-> t, terms |-> 0]]
       /\ nMade' = nMade + 1
  /\ pc' = [pc EXCEPT ![t] = "open_ret"]
  /\ UNCHANGED << envVars, regVars, seen, is_stream_open, everFailed, cur >>
  /\ UNCHANGED << apiVars, nTerm >>

\* open_stream that calls InitializeKDMAPIStream a second time when the
\* first call returns 0.
OpenStreamInitRetries(t) ==
  /\ pc[t] = "open_init"
  /\ \E r \in InitReturns, r2 \in InitReturns :
       LET n == IF r = 0 THEN 2 ELSE 1
           last == IF r = 0 THEN r2 ELSE r
       IN  /\ driverCalled' = TRUE
           /\ nInitOk' = nInitOk + (IF last = 0 THEN 0 ELSE 1)
           /\ drvInit' = (drvInit \/ last # 0)
           /\ IF last = 0
                THEN /\ call' = [call EXCEPT ![t].inits = @ + n, ![t].ret = last,
                                             ![t].result = "init_failed"]
                     /\ handles' = handles
                     /\ nMade' = nMade
                ELSE /\ call' = [call EXCEPT ![t].inits = @ + n, ![t].ret = last,
                                             ![t].made = @ + 1, ![t].result = "ok"]
                     /\ handles' = [handles EXCEPT ![NewHandle] =
                                      [state |-> "live", owner |-> t, terms |-> 0]]
                     /\ nMade' = nMade + 1
  /\ pc' = [pc EXCEPT ![t] = "open_ret"]
  /\ UNCHANGED << envVars, regVars, seen, is_stream_open, everFailed, cur >>
  /\ UNCHANGED << apiVars, nTerm >>

\* open_stream, second half: the InitializeKDMAPIStream call and the result
\* built from its return value. is_stream_open is not written. A nonzero
\* return leaves the driver's stream initialised.
OpenStreamInit(t) ==
  /\ pc[t] = "open_init"
  /\ \E r \in InitReturns :
       /\ driverCalled' = TRUE
       /\ nInitOk' = nInitOk + (IF r = 0 THEN 0 ELSE 1)
       /\ drvInit' = (drvInit \/ r # 0)
       /\ IF r = 0
            THEN /\ call' = [call EXCEPT ![t].inits = @ + 1, ![t].ret = r,
                                         ![t].result = "init_failed"]
                 /\ handles' = handles
                 /\ nMade' = nMade
            ELSE /\ call' = [call EXCEPT ![t].inits = @ + 1, ![t].ret = r,
                                         ![t].made = @ + 1, ![t].result = "ok"]
                 /\ handles' = [handles EXCEPT ![NewHandle] =
                                  [state |-> "live", owner |-> t, terms |-> 0]]
                 /\ nMade' = nMade + 1
  /\ pc' = [pc EXCEPT ![t] = "open_ret"]
  /\ UNCHANGED << envVars, regVars, seen, is_stream_open, everFailed, cur >>
  /\ UNCHANGED << apiVars, nTerm >>

\* open_stream's result reaches its caller.
OpenStreamReturn(t) ==
  /\ pc[t] = "open_ret"
  /\ everFailed' = (everFailed \/ call[t].result = "init_failed")
  /\ call' = [call EXCEPT ![t] = NoCall]
  /\ pc' = [pc EXCEPT ![t] = "ready"]
  /\ UNCHANGED << envVars, regVars, seen, is_stream_open, cur, handles,
                  driverCalled >>
  /\ UNCHANGED << apiVars, drvVars >>

\* ----------------------------------------------------------- KDMAPIStream
\* KDMAPIStream::reset
Reset(t, h) ==
  /\ pc[t] = "ready"
  /\ h \in OwnedBy(t)
  /\ driverCalled' = TRUE
  /\ UNCHANGED << envVars, regVars, seen, pc, is_stream_open, call, everFailed,
                  cur, handles >>
  /\ UNCHANGED << apiVars, drvVars >>

\* A drop that never calls the driver.
DropWithoutTerminate(t, h) ==
  /\ pc[t] = "ready"
  /\ h \in OwnedBy(t)
  /\ handles' = [handles EXCEPT ![h].state = "dropping"]
  /\ cur' = [cur EXCEPT ![t] = h]
  /\ pc' = [pc EXCEPT ![t] = "drop_clear"]
  /\ UNCHANGED << envVars, regVars, seen, is_stream_open, call, everFailed,
                  driverCalled >>
  /\ UNCHANGED << apiVars, drvVars >>

\* Drop for KDMAPIStream, first half: the TerminateKDMAPIStream call, which
\* leaves the driver's stream terminated.
DropTerminate(t, h) ==
  /\ pc[t] = "ready"
  /\ h \in OwnedBy(t)
  /\ driverCalled' = TRUE
  /\ handles' = [handles EXCEPT ![h].state = "dropping", ![h].terms = @ + 1]
  /\ cur' = [cur EXCEPT ![t] = h]
  /\ pc' = [pc EXCEPT ![t] = "drop_clear"]
  /\ nTerm' = nTerm + 1
  /\ drvInit' = FALSE
  /\ UNCHANGED << envVars, regVars, seen, is_stream_open, call, everFailed >>
  /\ UNCHANGED << apiVars, nInitOk, nMade >>

\* A drop whose final store writes true.
DropClearStoresTrue(t) ==
  /\ pc[t] = "drop_clear"
  /\ is_stream_open' = TRUE
  /\ handles' = [handles EXCEPT ![cur[t]].state = "dead", ![cur[t]].owner = 0]
  /\ cur' = [cur EXCEPT ![t] = 0]
  /\ pc' = [pc EXCEPT ![t] = "ready"]
  /\ UNCHANGED << envVars, regVars, seen, call, everFailed, driverCalled >>
  /\ UNCHANGED << apiVars, drvVars >>

\* Drop for KDMAPIStream, second half: the relaxed store of false.
DropClear(t) ==
  /\ pc[t] = "drop_clear"
  /\ is_stream_open' = FALSE
  /\ handles' = [handles EXCEPT ![cur[t]].state = "dead", ![cur[t]].owner = 0]
  /\ cur' = [cur EXCEPT ![t] = 0]
  /\ pc' = [pc EXCEPT ![t] = "ready"]
  /\ UNCHANGED << envVars, regVars, seen, call, everFailed, driverCalled >>
  /\ UNCHANGED << apiVars, drvVars >>

\* ------------------------------------------------------------------- Next
Next ==
  \/ \E t \in Threads : DerefFirst(t)
  \/ \E t \in Threads : LazyLoadLib(t)
  \/ \E t \in Threads : LoadKdmapiBinds(t)
  \/ \E t \in Threads : DerefCached(t)
  \/ \E t \in Threads : DerefPoisoned(t)
  \/ \E t \in Threads : IsKdmapiAvailable(t)
  \/ \E t \in Threads : OpenStreamCheck(t)
  \/ \E t \in Threads : OpenStreamInit(t)
  \/ \E t \in Threads : OpenStreamReturn(t)
  \/ \E t \in Threads, h \in HandleIds : Reset(t, h)
  \/ \E t \in Threads, h \in HandleIds : DropTerminate(t, h)
  \/ \E t \in Threads : DropClear(t)

Spec == Init /\ [][Next]_vars

\* ------------------------------------------------------ forwarding methods
\* The u32 words sent to and answered by the driver (forwarding does no
\* arithmetic on them), and the driver's bool answers as C bools.
Words == {0, 144, 2147483647}
Bools == {0, 1}

\* Unicode scalar values a path is made of: one, two and four bytes long in
\* UTF-8; the last one takes a surrogate pair in UTF-16.
Chars == {65, 233, 128512}
Paths == UNION { [1..n -> Chars] : n \in 0..MaxPathLen }

\* A &str's bytes: the UTF-8 encoding of one scalar value.
Utf8(c) ==
  IF c < 128 THEN << c >>
  ELSE IF c < 2048 THEN << 192 + (c \div 64), 128 + (c % 64) >>
  ELSE IF c < 65536
    THEN << 224 + (c \div 4096), 128 + ((c \div 64) % 64), 128 + (c % 64) >>
    ELSE << 240 + (c \div 262144), 128 + ((c \div 4096) % 64),
            128 + ((c \div 64) % 64), 128 + (c % 64) >>

\* OsStrExt::encode_wide: the UTF-16 encoding of one scalar value.
Utf16(c) ==
  IF c < 65536 THEN << c >>
  ELSE << 55296 + ((c - 65536) \div 1024), 56320 + ((c - 65536) % 1024) >>

RECURSIVE StrBytes(_)
StrBytes(path) ==
  IF path = << >> THEN << >> ELSE Utf8(Head(path)) \o StrBytes(Tail(path))

RECURSIVE EncodeWide(_)
EncodeWide(path) ==
  IF path = << >> THEN << >> ELSE Utf16(Head(path)) \o EncodeWide(Tail(path))

\* What may lie in memory right after a &str's bytes: nothing the program
\* controls.
AdjacentMemory == { << 0 >>, << 47 >>, << 47, 0 >> }

\* The memory the driver finds at the pointer load_custom_soundfonts_list
\* hands it. On windows a Vec<u16> is built from encode_wide chained with a
\* 0. Elsewhere the pointer is path.as_ptr(): the &str's own bytes, followed
\* by whatever is adjacent.
PathBuffer(plat, path, after) ==
  IF plat = "windows" THEN EncodeWide(path) \o << 0 >> ELSE StrBytes(path) \o after

\* KDMAPIBinds::is_kdmapi_available, with the driver's answer.
is_kdmapi_available(t) ==
  /\ pc[t] = "ready"
  /\ \E b \in Bools :
       /\ op' = [NoOp EXCEPT !.api = "is_kdmapi_available",
                             !.fn = "IsKDMAPIAvailable", !.calls = 1,
                             !.drv = b, !.ret = b, !.init = drvInit]
       /\ avail' = IF b = 1 THEN "yes" ELSE "no"
  /\ driverCalled' = TRUE
  /\ pc' = [pc EXCEPT ![t] = "api_ret"]
  /\ UNCHANGED << envVars, regVars, seen, is_stream_open, call, everFailed, cur,
                  handles, drvVars >>

\* A reset that also raises the guard.
reset_raising_guard(t, h) ==
  /\ pc[t] = "ready"
  /\ h \in OwnedBy(t)
  /\ op' = [NoOp EXCEPT !.api = "reset", !.fn = "ResetKDMAPIStream",
                        !.calls = 1, !.init = drvInit]
  /\ is_stream_open' = TRUE
  /\ driverCalled' = TRUE
  /\ pc' = [pc EXCEPT ![t] = "api_ret"]
  /\ UNCHANGED << envVars, regVars, seen, call, everFailed, cur, handles,
                  avail, drvVars >>

\* KDMAPIStream::reset
reset(t, h) ==
  /\ pc[t] = "ready"
  /\ h \in OwnedBy(t)
  /\ op' = [NoOp EXCEPT !.api = "reset", !.fn = "ResetKDMAPIStream",
                        !.calls = 1, !.init = drvInit]
  /\ driverCalled' = TRUE
  /\ pc' = [pc EXCEPT ![t] = "api_ret"]
  /\ UNCHANGED << envVars, regVars, seen, is_stream_open, call, everFailed, cur,
                  handles, avail, drvVars >>

\* KDMAPIStream::send_direct_data
send_direct_data(t, h) ==
  /\ pc[t] = "ready"
  /\ h \in OwnedBy(t)
  /\ \E d \in Words, r \in Words :
       op' = [NoOp EXCEPT !.api = "send_direct_data", !.fn = "SendDirectData",
                          !.calls = 1, !.data = d, !.arg = d, !.drv = r,
                          !.ret = r, !.init = drvInit]
  /\ driverCalled' = TRUE
  /\ pc' = [pc EXCEPT ![t] = "api_ret"]
  /\ UNCHANGED << envVars, regVars, seen, is_stream_open, call, everFailed, cur,
                  handles, avail, drvVars >>

\* send_direct_data_no_buf bound to the buffered entry point.
send_direct_data_no_buf_buffered(t, h) ==
  /\ pc[t] = "ready"
  /\ h \in OwnedBy(t)
  /\ \E d \in Words, r \in Words :
       op' = [NoOp EXCEPT !.api = "send_direct_data_no_buf",
                          !.fn = "SendDirectData", !.calls = 1,
                          !.data = d, !.arg = d, !.drv = r, !.ret = r,
                          !.init = drvInit]
  /\ driverCalled' = TRUE
  /\ pc' = [pc EXCEPT ![t] = "api_ret"]
  /\ UNCHANGED << envVars, regVars, seen, is_stream_open, call, everFailed, cur,
                  handles, avail, drvVars >>

\* KDMAPIStream::send_direct_data_no_buf
send_direct_data_no_buf(t, h) ==
  /\ pc[t] = "ready"
  /\ h \in OwnedBy(t)
  /\ \E d \in Words, r \in Words :
       op' = [NoOp EXCEPT !.api = "send_direct_data_no_buf",
                          !.fn = "SendDirectDataNoBuf", !.calls = 1,
                          !.data = d, !.arg = d, !.drv = r, !.ret = r,
                          !.init = drvInit]
  /\ driverCalled' = TRUE
  /\ pc' = [pc EXCEPT ![t] = "api_ret"]
  /\ UNCHANGED << envVars, regVars, seen, is_stream_open, call, everFailed, cur,
                  handles, avail, drvVars >>

\* KDMAPIStream::load_custom_soundfonts_list
load_custom_soundfonts_list(t, h) ==
  /\ pc[t] = "ready"
  /\ h \in OwnedBy(t)
  /\ \E path \in Paths, after \in AdjacentMemory, b \in Bools :
       op' = [NoOp EXCEPT !.api = "load_custom_soundfonts_list",
                          !.fn = "LoadCustomSoundFontsList", !.calls = 1,
                          !.path = path,
                          !.buf = PathBuffer(platform, path, after),
                          !.drv = b, !.ret = b, !.init = drvInit]
  /\ driverCalled' = TRUE
  /\ pc' = [pc EXCEPT ![t] = "api_ret"]
  /\ UNCHANGED << envVars, regVars, seen, is_stream_open, call, everFailed, cur,
                  handles, avail, drvVars >>

\* A forwarding method's result reaches its caller.
ApiReturn(t) ==
  /\ pc[t] = "api_ret"
  /\ op' = NoOp
  /\ pc' = [pc EXCEPT ![t] = "ready"]
  /\ UNCHANGED << envVars, regVars, seen, streamVars, avail, drvVars >>

\* The thread whose forwarding-method calls are followed one at a time.
Clients == {1}

\* One thread using the whole API: the registry, open_stream, the forwarding
\* methods with their arguments and results, and drop. (A thread that
\* panicked in KDMAPI's initialiser makes no further call.)
NextApi ==
  \/ \E t \in Clients : DerefFirst(t)
  \/ \E t \in Clients : LazyLoadLib(t)
  \/ \E t \in Clients : LoadKdmapiBinds(t)
  \/ \E t \in Clients : DerefCached(t)
  \/ \E t \in Clients : OpenStreamCheck(t)
  \/ \E t \in Clients : OpenStreamInit(t)
  \/ \E t \in Clients : OpenStreamReturn(t)
  \/ \E t \in Clients : is_kdmapi_available(t)
  \/ \E t \in Clients, h \in HandleIds : reset(t, h)
  \/ \E t \in Clients, h \in HandleIds : send_direct_data(t, h)
  \/ \E t \in Clients, h \in HandleIds : send_direct_data_no_buf(t, h)
  \/ \E t \in Clients, h \in HandleIds : load_custom_soundfonts_list(t, h)
  \/ \E t \in Clients : ApiReturn(t)
  \/ \E t \in Clients, h \in HandleIds : DropTerminate(t, h)
  \/ \E t \in Clients : DropClear(t)

SpecApi == Init /\ [][NextApi]_vars

\* ------------------------------------------------------------------ claims
Min(S) == CHOOSE x \in S : \A y \in S : x <= y

\* C1: at most one KDMAPIStream handle is live at any time, whatever the
\* interleaving of open_stream calls.
C1_AtMostOneLiveHandle == Cardinality(Held) <= 1

\* C2: outside the bodies of open_stream and drop, is_stream_open is true
\* exactly when a handle exists; in particular it is true when a successful
\* open_stream hands its handle to the caller.
C2_GuardIffHandleExists ==
  (\A t \in Threads : pc[t] \notin {"open_init", "drop_clear"})
    => (is_stream_open <=> Held # {})

\* C3: an open_stream call made by a thread that still owns a live handle
\* returns the "already open" error, constructs no handle and does not call
\* InitializeKDMAPIStream.
C3_SecondOpenRejected ==
  \A t \in Threads :
    (pc[t] = "open_ret" /\ call[t].own)
      => /\ call[t].result = "already_open"
         /\ call[t].made = 0
         /\ call[t].inits = 0

\* C4: dropping a handle calls TerminateKDMAPIStream exactly once for it and
\* then stores false to the guard: a live handle has not been terminated, a
\* handle whose drop is under way or complete has been terminated once, a
\* handle leaves the live state only through the terminate call, and the
\* step that completes a drop leaves the guard false.
C4_DropTerminatesOnceThenClears ==
  /\ [](\A h \in HandleIds :
          /\ handles[h].state = "live" => handles[h].terms = 0
          /\ handles[h].state \in {"dropping", "dead"} => handles[h].terms = 1)
  /\ [][\A h \in HandleIds :
          /\ (handles[h].state = "live" /\ handles'[h].state # "live")
               => (handles'[h].state = "dropping" /\ handles'[h].terms = 1)
          /\ (handles[h].state = "dropping" /\ handles'[h].state # "dropping")
               => /\ handles'[h].state = "dead"
                  /\ handles'[h].terms = 1
                  /\ is_stream_open' = FALSE]_vars

\* A handle has been dropped: terminated once, guard false.
C4_Witness ==
  \E h \in HandleIds :
    handles[h].state = "dead" /\ handles[h].terms = 1 /\ ~is_stream_open

\* C5: an open_stream call that reads the guard when a handle has been
\* dropped, none is live and no other call is past the guard is not rejected
\* as "already open": it calls InitializeKDMAPIStream once and returns Ok
\* with a handle whenever the driver returns nonzero.
C5_ReopenAfterDrop ==
  \A t \in Threads :
    (pc[t] \in {"open_init", "open_ret"} /\ call[t].idle /\ call[t].afterDrop)
      => /\ call[t].result # "already_open"
         /\ pc[t] = "open_ret"
              => /\ call[t].inits = 1
                 /\ call[t].ret # 0 => (call[t].result = "ok" /\ call[t].made = 1)

\* An open, drop, open cycle has completed: every slot has held a handle and
\* a call made after a drop, with no handle live, has returned Ok.
C5_Witness ==
  \E t \in Threads :
    /\ pc[t] = "open_ret"
    /\ call[t].idle /\ call[t].afterDrop
    /\ call[t].result = "ok"
    /\ Created = HandleIds

\* C6: when open_stream passes the guard and InitializeKDMAPIStream returns
\* 0, it returns the "Failed to initialize" error, constructs no handle,
\* calls no terminate and leaves the guard false; a later call made with no
\* handle live is not rejected and returns Ok when the driver returns nonzero.
C6_InitFailureLeavesGuardClear ==
  \A t \in Threads :
    /\ (pc[t] = "open_ret" /\ call[t].inits = 1 /\ call[t].ret = 0)
         => /\ call[t].result = "init_failed"
            /\ call[t].made = 0
            /\ call[t].terms = 0
            /\ ~is_stream_open
    /\ (pc[t] = "open_ret" /\ call[t].result = "init_failed")
         => (call[t].inits = 1 /\ call[t].ret = 0)
    /\ (pc[t] \in {"open_init", "open_ret"} /\ call[t].afterFail /\ call[t].idle)
         => /\ call[t].result # "already_open"
            /\ (pc[t] = "open_ret" /\ call[t].ret # 0) => call[t].result = "ok"

\* A call made after an init failure, with no handle live, has returned Ok.
C6_Witness ==
  \E t \in Threads :
    /\ pc[t] = "open_ret"
    /\ call[t].afterFail /\ call[t].idle
    /\ call[t].result = "ok"

\* C7: load_kdmapi_lib and load_kdmapi_binds each run at most once, and
\* every access of KDMAPI observes the same cached outcome, which is the
\* binding table or the load error.
C7_SingleInitSameOutcome ==
  /\ loadRuns <= 1
  /\ bindRuns <= 1
  /\ \A t \in Threads :
       seen[t] # NoVal
         => (seen[t].kind \in {"binds", "err"} /\ seen[t] = kdmapiVal)

\* C8: when no candidate library loads, the load error is cached for good:
\* every access returns that error, the load is not attempted again, no
\* symbol is resolved and no driver entry point is called.
C8_LoadErrorCached ==
  /\ [](libVal.kind = "err"
          => /\ loadRuns = 1
             /\ Len(attempts) = Len(CandidatePaths(platform))
             /\ resolved = << >>
             /\ ~driverCalled
             /\ Created = {}
             /\ kdmapiVal \in {NoVal, libVal}
             /\ \A t \in Threads : seen[t] \in {NoVal, libVal}
             /\ \A t \in Threads : pc[t] \in {"start", "bind"})
  /\ [][kdmapiVal.kind = "err" => kdmapiVal' = kdmapiVal]_vars

\* Every thread has been given the cached load error.
C8_Witness ==
  /\ libVal.kind = "err"
  /\ kdmapiOnce = "done"
  /\ \A t \in Threads : seen[t] = libVal /\ pc[t] = "start"

\* C9: when the library loads but an entry point is missing, the bind step
\* returns an error result, not a panic, and the registry yields that error
\* to every access.
C9_MissingSymbolIsAnError ==
  (libVal.kind = "lib" /\ missing # {} /\ bindRuns >= 1)
    => /\ kdmapiOnce = "done"
       /\ kdmapiVal.kind = "err"
       /\ \A t \in Threads :
            pc[t] # "panicked" /\ seen[t] \in {NoVal, kdmapiVal}

\* C10: load_kdmapi_lib tries the platform's candidates in list order, stops
\* at the first that loads and returns it, and when none loads returns the
\* error of the last candidate.
C10_FirstLoadableCandidateWins ==
  loadRuns >= 1
    => LET c == CandidatePaths(platform)
           ok == { i \in 1..Len(c) : loads[c[i]] }
       IN  IF ok = {}
             THEN attempts = c /\ libVal = ErrLoad(c[Len(c)])
             ELSE /\ attempts = SubSeq(c, 1, Min(ok))
                  /\ libVal = OkLib(c[Min(ok)])

\* The fallback has been used: the first candidate failed, the second loaded.
C10_Witness ==
  /\ loadRuns = 1
  /\ Len(attempts) = 2
  /\ libVal.kind = "lib"
  /\ libVal.name = attempts[2]

\* C11: on every platform and for every path, the buffer whose pointer
\* load_custom_soundfonts_list hands to the driver is the path's code units
\* (UTF-16 on windows, UTF-8 bytes elsewhere) followed by one terminating 0.
C11_PathBufferNulTerminated ==
  op.api = "load_custom_soundfonts_list"
    => op.buf = (IF platform = "windows" THEN EncodeWide(op.path)
                                         ELSE StrBytes(op.path)) \o << 0 >>

\* C12: send_direct_data calls SendDirectData once with its payload,
\* send_direct_data_no_buf calls SendDirectDataNoBuf once with its payload,
\* and each returns the driver's response unchanged.
C12_SendPassthrough ==
  /\ op.api = "send_direct_data"
       => /\ op.fn = "SendDirectData"
          /\ op.calls = 1
          /\ op.arg = op.data
          /\ op.ret = op.drv
  /\ op.api = "send_direct_data_no_buf"
       => /\ op.fn = "SendDirectDataNoBuf"
          /\ op.calls = 1
          /\ op.arg = op.data
          /\ op.ret = op.drv

\* The unbuffered variant has forwarded a payload and returned a response
\* that differs from it.
C12_Witness ==
  /\ op.api = "send_direct_data_no_buf"
  /\ op.data = 144
  /\ op.ret = 2147483647

\* C13: is_kdmapi_available returns what IsKDMAPIAvailable returns, with or
\* without an open stream; whatever the driver last reported, open_stream
\* calls InitializeKDMAPIStream unless the guard rejects the call, and its
\* result follows from the guard and that call's return value alone.
C13_AvailabilityIndependent ==
  /\ op.api = "is_kdmapi_available"
       => (op.fn = "IsKDMAPIAvailable" /\ op.calls = 1 /\ op.ret = op.drv)
  /\ \A t \in Threads :
       pc[t] = "open_ret"
         => /\ call[t].result = "already_open" <=> call[t].inits = 0
            /\ call[t].inits = 1
                 => call[t].result = (IF call[t].ret = 0 THEN "init_failed" ELSE "ok")
            /\ ~is_stream_open => call[t].inits = 1

\* The driver reported itself unavailable and open_stream returned Ok.
C13_Witness ==
  /\ avail = "no"
  /\ \E t \in Threads : pc[t] = "open_ret" /\ call[t].result = "ok"

\* C14: the number of handles ever constructed equals the number of nonzero
\* InitializeKDMAPIStream returns, the number of TerminateKDMAPIStream
\* calls never exceeds it, and the handles not yet dropped are those
\* constructed minus those terminated.
C14_HandlesMatchNonzeroInits ==
  /\ nMade = nInitOk
  /\ nTerm <= nInitOk
  /\ Cardinality(Held) = nMade - nTerm

\* Every observed open has succeeded and every handle has been dropped.
C14_Witness ==
  /\ nInitOk = MaxOpens
  /\ nMade = MaxOpens
  /\ nTerm = MaxOpens

\* C15: whenever a stream-scoped call reaches the driver through a live
\* handle, no TerminateKDMAPIStream call has occurred since the most recent
\* nonzero InitializeKDMAPIStream return.
C15_StreamCallsOnInitialisedStream ==
  op.api \in {"reset", "send_direct_data", "send_direct_data_no_buf",
              "load_custom_soundfonts_list"}
    => op.init

\* C16: no driver entry point is called unless the registry holds a built
\* binding table: the library is loaded before any symbol is resolved, every
\* symbol is resolved before the table is published, and the methods are
\* reached only by a thread that was given the published table.
C16_DriverOnlyThroughPublishedTable ==
  /\ resolved # << >> => (libVal.kind = "lib" /\ loadRuns = 1)
  /\ bindRuns >= 1 => loadRuns = 1
  /\ kdmapiVal = OkBinds => (resolved = SymbolNames /\ kdmapiOnce = "done")
  /\ driverCalled => kdmapiVal = OkBinds
  /\ Created # {} => kdmapiVal = OkBinds
  /\ \A t \in Threads :
       pc[t] \in {"ready", "open_init", "open_ret", "drop_clear", "api_ret"}
         => (kdmapiVal = OkBinds /\ seen[t] = OkBinds)

\* Driver entry points have been called, through the published table, by
\* two threads that each hold a handle.
C16_Witness ==
  /\ driverCalled
  /\ kdmapiVal = OkBinds
  /\ \A t \in Threads : OwnedBy(t) # {}

\* C17: the forwarding methods leave the guard, the handles and the cached
\* table unchanged; the table never changes once published; the guard is
\* written only inside open_stream and drop.
C17_ForwardingFrame ==
  /\ [][(op = NoOp /\ op' # NoOp)
          => UNCHANGED << is_stream_open, handles, libVal, kdmapiOnce,
                          kdmapiVal, resolved >>]_vars
  /\ [][kdmapiVal = OkBinds
          => UNCHANGED << libVal, kdmapiOnce, kdmapiVal, resolved >>]_vars
  /\ [][is_stream_open' # is_stream_open
          => \E t \in Threads :
               \/ pc[t] = "ready" /\ pc'[t] \in {"open_init", "open_ret"}
               \/ pc[t] = "open_init"
               \/ pc[t] = "drop_clear"]_vars

\* A forwarding method has been called on a live handle.
C17_Witness ==
  /\ op.api = "reset"
  /\ Held # {}
  /\ kdmapiVal = OkBinds

\* C18: once the table exists no thread panics, and every open_stream call
\* returns Ok with one new handle, the "already open" error or the
\* "initialization failed" error, calling InitializeKDMAPIStream at most
\* once.
C18_OpenStreamOutcomes ==
  kdmapiVal = OkBinds
    => \A t \in Threads :
         /\ pc[t] # "panicked"
         /\ pc[t] = "open_init" => (call[t].result = "pending" /\ call[t].inits = 0)
         /\ pc[t] = "open_ret"
              => /\ call[t].result \in {"ok", "already_open", "init_failed"}
                 /\ call[t].inits <= 1
                 /\ call[t].result = "ok"
                      => (call[t].inits = 1 /\ call[t].made = 1 /\ call[t].ret # 0)
                 /\ call[t].result = "init_failed"
                      => (call[t].inits = 1 /\ call[t].made = 0 /\ call[t].ret = 0)
                 /\ call[t].result = "already_open"
                      => (call[t].inits = 0 /\ call[t].made = 0)

\* Two calls have returned at once, one Ok and one with the init error.
C18_Witness ==
  \E t \in Threads, u \in Threads :
    /\ pc[t] = "open_ret" /\ call[t].result = "ok"
    /\ pc[u] = "open_ret" /\ call[u].result = "init_failed"

====
